---- MODULE Spec2Model ----
(***************************************************************************)
(* Model of homework.py: the Telegram bot that polls the Practicum         *)
(* homework-status API.  main() checks the tokens, then loops forever:     *)
(* get_api_answer -> check_response -> parse_status -> send_message,       *)
(* moving the cursor timestamp on success and reporting the first        *)
(* failure of an outage through send_message.                              *)
(*                                                                         *)
(* Python values are tagged records ([type |-> "int", int |-> 3], ...).    *)
(* The module's Russian string literals are written in Latin               *)
(* transliteration, character by character, because the TLA+ lexer         *)
(* accepts ASCII strings only; the punctuation, quotes and spaces are the  *)
(* source's, except that the soft signs and the backquotes around          *)
(* homeworks in check_response's message are dropped.                      *)
(***************************************************************************)
EXTENDS Integers, Sequences, FiniteSets, TLC

VARIABLES
    environ,            \* names of the variables set in os.environ
    patched,            \* TRUE: main() is called by an importer that rebound
                        \* the module's token globals; FALSE: run as a script
    PRACTICUM_TOKEN,    \* module global, line 29
    TELEGRAM_TOKEN,     \* module global, line 30
    TELEGRAM_CHAT_ID,   \* module global, line 31
    HOMEWORK_VERDICTS,  \* module global, lines 38-42
    pc,                 \* position of main()
    timestamp,          \* main's local timestamp (the cursor)
    error_reported,     \* main's local error_reported
    response,           \* main's local response
    homeworks,          \* main's local homeworks
    status,             \* main's local status (the text parse_status built)
    error,              \* the exception being handled / propagating
    pending,            \* an exception left the except block: it propagates
                        \* out of main() once the finally block has run
    sent,               \* history: send_message calls of the current cycle
    cycleFailed,        \* history: the current cycle entered the except block
    cursorAtStart,      \* history: timestamp when the current cycle began
    failRun,            \* history: consecutive failing cycles (saturating)
    runIncidents,       \* history: incident calls in this run (saturating)
    recovered,          \* history: a failing cycle was followed by a success
    runFirstKind,       \* history: class of the error that began this run,
                        \* told apart as far as Kind tells
    runDelivered,       \* history: an incident message of this run was
                        \* delivered
    slept,              \* history: seconds slept since the last fetch
    fetches,            \* history: get_api_answer calls since the last sleep
    lastHttp,           \* history: what requests.get did in this cycle
    fetched,            \* history: get_api_answer has been called
    notified            \* history: send_message has been called

vars == <<environ, patched, PRACTICUM_TOKEN, TELEGRAM_TOKEN, TELEGRAM_CHAT_ID,
          HOMEWORK_VERDICTS, pc, timestamp, error_reported, response,
          homeworks, status, error, pending, sent, cycleFailed,
          cursorAtStart, failRun, runIncidents, runFirstKind, runDelivered,
          recovered, slept, fetches, lastHttp, fetched, notified>>

-----------------------------------------------------------------------------
(* Bounds of the model *)

\* longest homeworks list a response carries
MaxItems == 2
\* timestamps (time.time() and the server's current_date) range over 0..MaxTime
MaxTime == 1
\* failRun counts 0, 1, ..., MaxRun-1 and "MaxRun or more"
MaxRun == 3

-----------------------------------------------------------------------------
(* Program constants *)

RETRY_PERIOD == 600

ENDPOINT == "https://practicum.yandex.ru/api/user_api/homework_statuses/"

HTTP_OK == 200

-----------------------------------------------------------------------------
(* Python values *)

PyNone == [type |-> "NoneType"]
PyInt(n) == [type |-> "int", int |-> n]
PyStr(s) == [type |-> "str", str |-> s]
PyList(items) == [type |-> "list", items |-> items]
EmptyDict == [type |-> "dict", keys |-> {}]
\* a local name that is not bound to a value
Unbound == [type |-> "unbound"]

\* bool(v)
Truthy(v) ==
    CASE v.type = "NoneType" -> FALSE
      [] v.type = "int" -> v.int # 0
      [] v.type = "str" -> v.str # ""
      [] v.type = "list" -> Len(v.items) > 0
      [] v.type = "dict" -> v.keys # {}

\* repr(v) of the values a cursor can hold
Repr(v) ==
    CASE v.type = "NoneType" -> "None"
      [] v.type = "int" -> ToString(v.int)
      [] v.type = "str" -> "'" \o v.str \o "'"

\* an exception object: its class and str(exception)
Exc(type, text) == [type |-> type, text |-> text]
NoError == Exc("", "")

\* what a call did: returned a value, or raised
Return(v) == [raised |-> FALSE, value |-> v, exc |-> NoError]
Raise(e) == [raised |-> TRUE, value |-> PyNone, exc |-> e]

-----------------------------------------------------------------------------
(* The inputs the environment supplies *)

TokenNames == <<"PRACTICUM_TOKEN", "TELEGRAM_TOKEN", "TELEGRAM_CHAT_ID">>
TokenValues == {PyNone, PyStr("secret")}

\* os.getenv(name)
getenv(env, name) == IF name \in env THEN PyStr("secret") ELSE PyNone

Names == {"X", "Y"}
Statuses == {"approved", "reviewing", "rejected", "unknown"}
BothItemKeys == {"homework_name", "status"}

\* one element of the homeworks list
Item(keys, name, st) ==
    [type |-> "dict", keys |-> keys, homework_name |-> name, status |-> st]

\* elements at index 0: complete items, items lacking a key, a non-mapping
HeadItems ==
    {Item(BothItemKeys, n, s) : n \in Names, s \in Statuses}
        \cup {Item({"status"}, "", "approved"),
              Item({"homework_name"}, "X", ""),
              PyNone}

\* elements at indices 1..
TailItems ==
    {Item(BothItemKeys, "Y", "rejected"),
     PyNone}

Tails(n) == UNION {[1..k -> TailItems] : k \in 0..n}

HomeworkLists ==
    {PyList(<<>>)}
        \cup {PyList(<<h>> \o t) : h \in HeadItems, t \in Tails(MaxItems - 1)}

\* values under 'homeworks' that are not lists: three falsy, one truthy
NonLists == {PyNone, PyStr(""), EmptyDict, PyInt(1)}

\* values under 'current_date'
Dates == {PyInt(n) : n \in 0..MaxTime} \cup {PyStr("2024")}

BothKeys == {"homeworks", "current_date"}

\* a decoded JSON object; keys are the keys it has
ApiDict(keys, hw, cd) ==
    [type |-> "dict", keys |-> keys, homeworks |-> hw, current_date |-> cd]

\* what response.json() can return
Bodies ==
    {ApiDict(BothKeys, hw, cd) : hw \in HomeworkLists, cd \in Dates}
        \cup {ApiDict(BothKeys, hw, PyInt(MaxTime)) : hw \in NonLists}
        \cup {ApiDict({"homeworks"}, PyList(<<>>), PyNone),
              ApiDict({"homeworks"},
                      PyList(<<Item(BothItemKeys, "X", "approved")>>), PyNone),
              ApiDict({"current_date"}, PyNone, PyInt(0)),
              ApiDict({}, PyNone, PyNone)}
        \cup {PyList(<<>>), PyNone}

\* a body that is not JSON: response.json() raises
NotJson == [type |-> "invalid"]

StatusCodes == {200, 201, 404, 500}

Reason(code) ==
    CASE code = 200 -> "OK"
      [] code = 201 -> "Created"
      [] code = 404 -> "Not Found"
      [] code = 500 -> "Internal Server Error"

\* no request has been made in this cycle
NoRequest == [kind |-> "none", status_code |-> 0, json |-> NotJson]

\* what requests.get can do: raise a RequestException, or return a response
HttpOutcomes ==
    {[kind |-> "RequestException", status_code |-> 0, json |-> NotJson]}
        \cup {[kind |-> "response", status_code |-> c, json |-> NotJson] :
                 c \in StatusCodes}
        \cup {[kind |-> "response", status_code |-> HTTP_OK, json |-> b] :
                 b \in Bodies}

\* what bot.send_message can do: deliver, or raise one of the two exception
\* families of the messaging transport
BotOutcomes == {"ok", "ApiException", "RequestException"}

-----------------------------------------------------------------------------
(* The functions of homework.py *)

\* HOMEWORK_VERDICTS as the module defines it
Verdicts ==
    [s \in {"approved", "reviewing", "rejected"} |->
        CASE s = "approved" ->
                 "Rabota proverena: revyueru vsyo ponravilos. Ura!"
          [] s = "reviewing" -> "Rabota vzyata na proverku revyuerom."
          [] s = "rejected" ->
                 "Rabota proverena: u revyuera est zamechaniya."]

\* HEADERS, built once at import from PRACTICUM_TOKEN as line 29 set it
HEADERS == "{'Authorization': 'OAuth " \o Repr(PyNone) \o "'}"

\* the names of TokenNames[i..] whose value is None, in dictionary order
RECURSIVE MissingFrom(_, _)
MissingFrom(i, value) ==
    IF i > Len(TokenNames) THEN <<>>
    ELSE (IF value[TokenNames[i]] = PyNone THEN <<TokenNames[i]>> ELSE <<>>)
             \o MissingFrom(i + 1, value)

\* required_tokens and missing_tokens of check_tokens
missing_tokens(practicum, telegram, chat) ==
    MissingFrom(1, [n \in {"PRACTICUM_TOKEN", "TELEGRAM_TOKEN",
                           "TELEGRAM_CHAT_ID"} |->
                       CASE n = "PRACTICUM_TOKEN" -> practicum
                         [] n = "TELEGRAM_TOKEN" -> telegram
                         [] n = "TELEGRAM_CHAT_ID" -> chat])

\* repr of a list of strings
RECURSIVE ListBody(_)
ListBody(names) ==
    IF Len(names) = 0 THEN ""
    ELSE "'" \o Head(names) \o "'"
             \o (IF Len(names) > 1 THEN ", " ELSE "")
             \o ListBody(Tail(names))

\* a variant of check_tokens that gives up only when no token is set
check_tokens_all_missing(practicum, telegram, chat) ==
    LET missing == missing_tokens(practicum, telegram, chat) IN
    IF Len(missing) = Len(TokenNames)
    THEN Raise(Exc("OSError",
                   "Nedostayushchie peremennye okruzheniya: ["
                       \o ListBody(missing) \o "]."))
    ELSE Return(PyNone)

check_tokens(practicum, telegram, chat) ==
    LET missing == missing_tokens(practicum, telegram, chat) IN
    IF Len(missing) > 0
    THEN Raise(Exc("OSError",
                   "Nedostayushchie peremennye okruzheniya: ["
                       \o ListBody(missing) \o "]."))
    ELSE Return(PyNone)

\* a variant of send_message without the RequestException clause
send_message_api_only(outcome) ==
    CASE outcome = "ok" -> Return(TRUE)
      [] outcome = "ApiException" -> Return(FALSE)
      [] OTHER -> Raise(Exc(outcome, ""))

\* send_message, given what bot.send_message does
send_message(outcome) ==
    CASE outcome = "ok" -> Return(TRUE)
      [] outcome = "ApiException" -> Return(FALSE)
      [] outcome = "RequestException" -> Return(FALSE)
      [] OTHER -> Raise(Exc(outcome, ""))

\* repr of payload
PayloadRepr(ts) ==
    "{'url': '" \o ENDPOINT \o "', 'headers': " \o HEADERS
        \o ", 'params': {'from_date': " \o Repr(ts) \o "}}"

\* a variant of get_api_answer without the try block around requests.get:
\* the transport's exception leaves as it is
get_api_answer_unwrapped(ts, http) ==
    IF http.kind = "RequestException"
    THEN Raise(Exc("RequestException", "connection failed"))
    ELSE IF http.status_code # HTTP_OK
    THEN Raise(Exc("ResponseStatusError",
                   "Obnaruzhena oshibka v otvete servera: "
                       \o "Parametry zaprosa: " \o PayloadRepr(ts)
                       \o " Kod otveta servera: " \o ToString(http.status_code)
                       \o " Prichina: " \o Reason(http.status_code)
                       \o " Kontekst: "))
    ELSE IF http.json = NotJson
    THEN Raise(Exc("JSONDecodeError",
                   "Expecting value: line 1 column 1 (char 0)"))
    ELSE Return(http.json)

\* get_api_answer, given what requests.get does
get_api_answer(ts, http) ==
    IF http.kind = "RequestException"
    THEN Raise(Exc("ResponseStatusError",
                   "Vo vremya podklyucheniya k endpointu " \o ENDPOINT
                       \o " proizoshla oshibka: connection failed "
                       \o "Parametry: (" \o HEADERS \o ", {'from_date': "
                       \o Repr(ts) \o "})"))
    ELSE IF http.status_code # HTTP_OK
    THEN Raise(Exc("ResponseStatusError",
                   "Obnaruzhena oshibka v otvete servera: "
                       \o "Parametry zaprosa: " \o PayloadRepr(ts)
                       \o " Kod otveta servera: " \o ToString(http.status_code)
                       \o " Prichina: " \o Reason(http.status_code)
                       \o " Kontekst: "))
    ELSE IF http.json = NotJson
    THEN Raise(Exc("JSONDecodeError",
                   "Expecting value: line 1 column 1 (char 0)"))
    ELSE Return(http.json)

\* a variant of check_response that returns a falsy homeworks value at
\* once, before it looks at its type
check_response_falsy_first(resp) ==
    IF resp.type # "dict"
    THEN Raise(Exc("TypeError",
                   "V otvete API struktura dannyh ne sootvetstvuet "
                       \o "ozhidaniyam:Ozhidalsya tip dannyh dict, poluchen "
                       \o resp.type))
    ELSE IF "homeworks" \notin resp.keys \/ "current_date" \notin resp.keys
    THEN Raise(Exc("KeyError",
                   "'Otsutstvie ozhidaemyh klyuchej v otvete API.'"))
    ELSE IF ~Truthy(resp.homeworks)
    THEN Return(resp.homeworks)
    ELSE IF resp.homeworks.type # "list"
    THEN Raise(Exc("TypeError",
                   "V otvete API pod klyuchom homeworks dannye ne v vide "
                       \o "spiskaOzhidalsya tip dannyh list, poluchen "
                       \o resp.homeworks.type))
    ELSE Return(resp.homeworks)

check_response(resp) ==
    IF resp.type # "dict"
    THEN Raise(Exc("TypeError",
                   "V otvete API struktura dannyh ne sootvetstvuet "
                       \o "ozhidaniyam:Ozhidalsya tip dannyh dict, poluchen "
                       \o resp.type))
    ELSE IF "homeworks" \notin resp.keys \/ "current_date" \notin resp.keys
    THEN Raise(Exc("KeyError",
                   "'Otsutstvie ozhidaemyh klyuchej v otvete API.'"))
    ELSE IF resp.homeworks.type # "list"
    THEN Raise(Exc("TypeError",
                   "V otvete API pod klyuchom homeworks dannye ne v vide "
                       \o "spiskaOzhidalsya tip dannyh list, poluchen "
                       \o resp.homeworks.type))
    ELSE Return(resp.homeworks)

\* a variant of parse_status that reads the table with a default
\* (verdicts.get(status, '')) instead of raising HomeworkStatusError
parse_status_lenient(homework, verdicts) ==
    IF homework.type # "dict"
    THEN Raise(Exc("TypeError",
                   "argument of type '" \o homework.type
                       \o "' is not iterable"))
    ELSE IF "homework_name" \notin homework.keys
    THEN Raise(Exc("KeyError",
                   "'Polucheno pustoe znachenie po klyuchu "
                       \o "\"homework_name\".'"))
    ELSE IF "status" \notin homework.keys
    THEN Raise(Exc("KeyError", "'status'"))
    ELSE Return("Izmenilsya status proverki raboty \""
                    \o homework.homework_name \o "\". "
                    \o (IF homework.status \in DOMAIN verdicts
                        THEN verdicts[homework.status] ELSE ""))

parse_status(homework, verdicts) ==
    IF homework.type # "dict"
    THEN Raise(Exc("TypeError",
                   "argument of type '" \o homework.type
                       \o "' is not iterable"))
    ELSE IF "homework_name" \notin homework.keys
    THEN Raise(Exc("KeyError",
                   "'Polucheno pustoe znachenie po klyuchu "
                       \o "\"homework_name\".'"))
    ELSE IF "status" \notin homework.keys
    THEN Raise(Exc("KeyError", "'status'"))
    ELSE IF homework.status \notin DOMAIN verdicts
    THEN Raise(Exc("HomeworkStatusError",
                   "Neozhidannyj status domashnej raboty: "
                       \o homework.status))
    ELSE Return("Izmenilsya status proverki raboty \""
                    \o homework.homework_name \o "\". "
                    \o verdicts[homework.status])

\* a variant of get_current_date that never takes the server's value
get_current_date_keeps(resp, default) == default

\* response.get('current_date', timestamp)
get_current_date(resp, default) ==
    IF "current_date" \in resp.keys THEN resp.current_date ELSE default

\* the message of main's except block
incident_message(exc) == "Proizoshel sboj v rabote programmy: " \o exc.text

-----------------------------------------------------------------------------
(* The state machine of main() *)

Min(a, b) == IF a < b THEN a ELSE b

\* the class of an exception, for the history: ResponseStatusError or other
Kind(exc) ==
    IF exc.type = "ResponseStatusError" THEN "ResponseStatusError" ELSE "other"

\* one send_message call, as the history records it
Call(kind, text, outcome, r) ==
    [kind |-> kind, text |-> text, outcome |-> outcome,
     raised |-> r.raised, returned |-> r.value]

\* The module has been loaded and main() is about to run.  Run as a script,
\* the token globals are what lines 29-31 assign: None, None and
\* os.getenv('TELEGRAM_CHAT_ID').  Called by an importer, they are whatever
\* the importer rebound them to.
Init ==
    /\ patched \in BOOLEAN
    /\ IF patched
       THEN /\ environ = {}
            /\ PRACTICUM_TOKEN \in TokenValues
            /\ TELEGRAM_TOKEN \in TokenValues
            /\ TELEGRAM_CHAT_ID \in TokenValues
       ELSE /\ environ \in SUBSET {"PRACTICUM_TOKEN", "TELEGRAM_TOKEN",
                                   "TELEGRAM_CHAT_ID"}
            /\ PRACTICUM_TOKEN = PyNone
            /\ TELEGRAM_TOKEN = PyNone
            /\ TELEGRAM_CHAT_ID = getenv(environ, "TELEGRAM_CHAT_ID")
    /\ HOMEWORK_VERDICTS = Verdicts
    /\ pc = "main"
    /\ timestamp = Unbound
    /\ error_reported = FALSE
    /\ response = Unbound
    /\ homeworks = Unbound
    /\ status = ""
    /\ error = NoError
    /\ pending = FALSE
    /\ sent = <<>>
    /\ cycleFailed = FALSE
    /\ cursorAtStart = Unbound
    /\ failRun = 0
    /\ runIncidents = 0
    /\ runFirstKind = ""
    /\ runDelivered = FALSE
    /\ recovered = FALSE
    /\ slept = 0
    /\ fetches = 0
    /\ lastHttp = NoRequest
    /\ fetched = FALSE
    /\ notified = FALSE

globals == <<environ, patched, PRACTICUM_TOKEN, TELEGRAM_TOKEN,
             TELEGRAM_CHAT_ID, HOMEWORK_VERDICTS>>

\* lines 189-192: check_tokens(), then the bot, the cursor and the flag
Startup ==
    /\ pc = "main"
    /\ \E now \in 0..MaxTime :
         LET r == check_tokens(PRACTICUM_TOKEN, TELEGRAM_TOKEN,
                               TELEGRAM_CHAT_ID) IN
         IF r.raised
         THEN /\ pc' = "raised"
              /\ error' = r.exc
              /\ UNCHANGED <<timestamp, error_reported>>
         ELSE /\ pc' = "get_api_answer"
              /\ timestamp' = PyInt(now)
              /\ error_reported' = FALSE
              /\ UNCHANGED error
    /\ UNCHANGED <<globals, response, homeworks, status, pending, sent,
                   cycleFailed, cursorAtStart, failRun, runIncidents,
                   runFirstKind, runDelivered,
                   recovered, slept, fetches, lastHttp, fetched, notified>>

\* line 196: response = get_api_answer(timestamp)
GetApiAnswer ==
    /\ pc = "get_api_answer"
    /\ \E http \in HttpOutcomes :
         LET r == get_api_answer(timestamp, http) IN
         /\ lastHttp' = http
         /\ IF r.raised
            THEN /\ pc' = "except"
                 /\ error' = r.exc
                 /\ UNCHANGED response
            ELSE /\ pc' = "check_response"
                 /\ response' = r.value
                 /\ UNCHANGED error
    /\ cursorAtStart' = timestamp
    /\ slept' = 0
    /\ fetches' = Min(fetches + 1, 2)
    /\ fetched' = TRUE
    /\ UNCHANGED <<globals, timestamp, error_reported, homeworks, status,
                   pending, sent, cycleFailed, failRun, runIncidents,
                   runFirstKind, runDelivered,
                   recovered, notified>>

\* a variant of CheckResponse that moves the cursor as soon as the response
\* is validated, before the item is classified
CheckResponse_advances ==
    /\ pc = "check_response"
    /\ LET r == check_response(response) IN
       IF r.raised
       THEN /\ pc' = "except"
            /\ error' = r.exc
            /\ UNCHANGED <<homeworks, timestamp>>
       ELSE /\ pc' = IF Truthy(r.value) THEN "parse_status" ELSE "advance"
            /\ homeworks' = r.value
            /\ timestamp' = get_current_date(response, timestamp)
            /\ UNCHANGED error
    /\ UNCHANGED <<globals, error_reported, response, status,
                   pending, sent, cycleFailed, cursorAtStart, failRun,
                   runIncidents, runFirstKind, runDelivered, recovered,
                   slept, fetches, lastHttp, fetched, notified>>

\* lines 197-198: homeworks = check_response(response); if homeworks:
CheckResponse ==
    /\ pc = "check_response"
    /\ LET r == check_response(response) IN
       IF r.raised
       THEN /\ pc' = "except"
            /\ error' = r.exc
            /\ UNCHANGED homeworks
       ELSE /\ pc' = IF Truthy(r.value) THEN "parse_status" ELSE "advance"
            /\ homeworks' = r.value
            /\ UNCHANGED error
    /\ UNCHANGED <<globals, timestamp, error_reported, response, status,
                   pending, sent, cycleFailed, cursorAtStart, failRun,
                   runIncidents, runFirstKind, runDelivered, recovered,
                   slept, fetches, lastHttp, fetched, notified>>

\* a variant of ParseStatus that classifies the last item of the list
ParseStatus_last_item ==
    /\ pc = "parse_status"
    /\ LET r == parse_status(homeworks.items[Len(homeworks.items)],
                             HOMEWORK_VERDICTS) IN
       IF r.raised
       THEN /\ pc' = "except"
            /\ error' = r.exc
            /\ UNCHANGED status
       ELSE /\ pc' = "send_message"
            /\ status' = r.value
            /\ UNCHANGED error
    /\ UNCHANGED <<globals, timestamp, error_reported, response, homeworks,
                   pending, sent, cycleFailed, cursorAtStart, failRun,
                   runIncidents, runFirstKind, runDelivered, recovered,
                   slept, fetches, lastHttp, fetched, notified>>

\* line 199: status = parse_status(homeworks[0])
ParseStatus ==
    /\ pc = "parse_status"
    /\ LET r == parse_status(homeworks.items[1], HOMEWORK_VERDICTS) IN
       IF r.raised
       THEN /\ pc' = "except"
            /\ error' = r.exc
            /\ UNCHANGED status
       ELSE /\ pc' = "send_message"
            /\ status' = r.value
            /\ UNCHANGED error
    /\ UNCHANGED <<globals, timestamp, error_reported, response, homeworks,
                   pending, sent, cycleFailed, cursorAtStart, failRun,
                   runIncidents, runFirstKind, runDelivered, recovered,
                   slept, fetches, lastHttp, fetched, notified>>

\* a variant of SendStatus that ends the cycle when the delivery failed,
\* so that the cursor waits for the message
SendStatus_hold_on_failure ==
    /\ pc = "send_message"
    /\ \E outcome \in BotOutcomes :
         LET r == send_message(outcome) IN
         /\ sent' = Append(sent, Call("status", status, outcome, r))
         /\ IF r.raised
            THEN /\ pc' = "except"
                 /\ error' = r.exc
            ELSE /\ pc' = IF r.value THEN "advance" ELSE "sleep"
                 /\ UNCHANGED error
    /\ notified' = TRUE
    /\ UNCHANGED <<globals, timestamp, error_reported, response, homeworks,
                   status, pending, cycleFailed, cursorAtStart, failRun,
                   runIncidents, runFirstKind, runDelivered, recovered,
                   slept, fetches, lastHttp, fetched>>

\* line 200: send_message(bot, status)
SendStatus ==
    /\ pc = "send_message"
    /\ \E outcome \in BotOutcomes :
         LET r == send_message(outcome) IN
         /\ sent' = Append(sent, Call("status", status, outcome, r))
         /\ IF r.raised
            THEN /\ pc' = "except"
                 /\ error' = r.exc
            ELSE /\ pc' = "advance"
                 /\ UNCHANGED error
    /\ notified' = TRUE
    /\ UNCHANGED <<globals, timestamp, error_reported, response, homeworks,
                   status, pending, cycleFailed, cursorAtStart, failRun,
                   runIncidents, runFirstKind, runDelivered, recovered,
                   slept, fetches, lastHttp, fetched>>

\* a variant of Advance that leaves the flag as it is
Advance_keeps_flag ==
    /\ pc = "advance"
    /\ timestamp' = get_current_date(response, timestamp)
    /\ pc' = "sleep"
    /\ failRun' = 0
    /\ runIncidents' = 0
    /\ runFirstKind' = ""
    /\ runDelivered' = FALSE
    /\ recovered' = (recovered \/ failRun > 0)
    /\ UNCHANGED <<globals, error_reported, response, homeworks, status,
                   error, pending, sent, cycleFailed, cursorAtStart, slept,
                   fetches, lastHttp,
                   fetched, notified>>

\* a variant of Advance that moves the cursor only when there were items
Advance_only_with_items ==
    /\ pc = "advance"
    /\ timestamp' = IF Truthy(homeworks)
                    THEN get_current_date(response, timestamp)
                    ELSE timestamp
    /\ error_reported' = FALSE
    /\ pc' = "sleep"
    /\ failRun' = 0
    /\ runIncidents' = 0
    /\ runFirstKind' = ""
    /\ runDelivered' = FALSE
    /\ recovered' = (recovered \/ failRun > 0)
    /\ UNCHANGED <<globals, response, homeworks, status, error, pending,
                   sent, cycleFailed, cursorAtStart, slept, fetches,
                   lastHttp, fetched,
                   notified>>

\* a variant of Advance that resets the flag only when there were items
Advance_reset_with_items ==
    /\ pc = "advance"
    /\ timestamp' = get_current_date(response, timestamp)
    /\ error_reported' = IF Truthy(homeworks) THEN FALSE ELSE error_reported
    /\ pc' = "sleep"
    /\ failRun' = 0
    /\ runIncidents' = 0
    /\ runFirstKind' = ""
    /\ runDelivered' = FALSE
    /\ recovered' = (recovered \/ failRun > 0)
    /\ UNCHANGED <<globals, response, homeworks, status, error, pending,
                   sent, cycleFailed, cursorAtStart, slept, fetches,
                   lastHttp, fetched, notified>>

\* lines 201-202: the cursor moves to current_date and the flag resets
Advance ==
    /\ pc = "advance"
    /\ timestamp' = get_current_date(response, timestamp)
    /\ error_reported' = FALSE
    /\ pc' = "sleep"
    /\ failRun' = 0
    /\ runIncidents' = 0
    /\ runFirstKind' = ""
    /\ runDelivered' = FALSE
    /\ recovered' = (recovered \/ failRun > 0)
    /\ UNCHANGED <<globals, response, homeworks, status, error, pending,
                   sent, cycleFailed, cursorAtStart, slept, fetches,
                   lastHttp, fetched,
                   notified>>

\* a variant of Except without the flag test: every failing cycle notifies
Except_flooding ==
    /\ pc = "except"
    /\ \E outcome \in BotOutcomes :
         LET r == send_message(outcome) IN
         /\ sent' = Append(sent, Call("incident", incident_message(error),
                                      outcome, r))
         /\ notified' = TRUE
         /\ runIncidents' = Min(runIncidents + 1, 2)
         /\ runDelivered' = (runDelivered \/ (~r.raised /\ r.value))
         /\ IF r.raised
            THEN /\ pending' = TRUE
                 /\ error' = r.exc
                 /\ UNCHANGED error_reported
            ELSE /\ error_reported' = TRUE
                 /\ UNCHANGED <<pending, error>>
    /\ pc' = "sleep"
    /\ cycleFailed' = TRUE
    /\ failRun' = Min(failRun + 1, MaxRun)
    /\ runFirstKind' = IF failRun = 0 THEN Kind(error) ELSE runFirstKind
    /\ UNCHANGED <<globals, timestamp, response, homeworks, status,
                   cursorAtStart, recovered, slept, fetches, lastHttp,
                   fetched>>

\* a variant of Except that ends with a bare raise
Except_reraise ==
    /\ pc = "except"
    /\ IF ~error_reported
       THEN \E outcome \in BotOutcomes :
              LET r == send_message(outcome) IN
              /\ sent' = Append(sent, Call("incident",
                                           incident_message(error),
                                           outcome, r))
              /\ notified' = TRUE
              /\ runIncidents' = Min(runIncidents + 1, 2)
              /\ runDelivered' = (runDelivered \/ (~r.raised /\ r.value))
              /\ error' = IF r.raised THEN r.exc ELSE error
              /\ error_reported' = (error_reported \/ ~r.raised)
       ELSE UNCHANGED <<sent, notified, runIncidents, runDelivered, error,
                        error_reported>>
    /\ pending' = TRUE
    /\ pc' = "sleep"
    /\ cycleFailed' = TRUE
    /\ failRun' = Min(failRun + 1, MaxRun)
    /\ runFirstKind' = IF failRun = 0 THEN Kind(error) ELSE runFirstKind
    /\ UNCHANGED <<globals, timestamp, response, homeworks, status,
                   cursorAtStart, recovered, slept, fetches, lastHttp,
                   fetched>>

\* a variant of Except that sets the flag only when the incident message
\* was delivered
Except_flag_if_delivered ==
    /\ pc = "except"
    /\ IF ~error_reported
       THEN \E outcome \in BotOutcomes :
              LET r == send_message(outcome) IN
              /\ sent' = Append(sent, Call("incident",
                                           incident_message(error),
                                           outcome, r))
              /\ notified' = TRUE
              /\ runIncidents' = Min(runIncidents + 1, 2)
              /\ runDelivered' = (runDelivered \/ (~r.raised /\ r.value))
              /\ IF r.raised
                 THEN /\ pending' = TRUE
                      /\ error' = r.exc
                      /\ UNCHANGED error_reported
                 ELSE /\ error_reported' = r.value
                      /\ UNCHANGED <<pending, error>>
       ELSE UNCHANGED <<sent, notified, runIncidents, runDelivered, pending,
                        error, error_reported>>
    /\ pc' = "sleep"
    /\ cycleFailed' = TRUE
    /\ failRun' = Min(failRun + 1, MaxRun)
    /\ runFirstKind' = IF failRun = 0 THEN Kind(error) ELSE runFirstKind
    /\ UNCHANGED <<globals, timestamp, response, homeworks, status,
                   cursorAtStart, recovered, slept, fetches, lastHttp,
                   fetched>>

\* a variant of Except that also notifies when the error is of another
\* class than the one that began the run
Except_by_kind ==
    /\ pc = "except"
    /\ IF ~error_reported \/ (failRun > 0 /\ Kind(error) # runFirstKind)
       THEN \E outcome \in BotOutcomes :
              LET r == send_message(outcome) IN
              /\ sent' = Append(sent, Call("incident",
                                           incident_message(error),
                                           outcome, r))
              /\ notified' = TRUE
              /\ runIncidents' = Min(runIncidents + 1, 2)
              /\ runDelivered' = (runDelivered \/ (~r.raised /\ r.value))
              /\ IF r.raised
                 THEN /\ pending' = TRUE
                      /\ error' = r.exc
                      /\ UNCHANGED error_reported
                 ELSE /\ error_reported' = TRUE
                      /\ UNCHANGED <<pending, error>>
       ELSE UNCHANGED <<sent, notified, runIncidents, runDelivered, pending,
                        error, error_reported>>
    /\ pc' = "sleep"
    /\ cycleFailed' = TRUE
    /\ failRun' = Min(failRun + 1, MaxRun)
    /\ runFirstKind' = IF failRun = 0 THEN Kind(error) ELSE runFirstKind
    /\ UNCHANGED <<globals, timestamp, response, homeworks, status,
                   cursorAtStart, recovered, slept, fetches, lastHttp,
                   fetched>>

\* lines 203-208: the except block
Except ==
    /\ pc = "except"
    /\ IF ~error_reported
       THEN \E outcome \in BotOutcomes :
              LET r == send_message(outcome) IN
              /\ sent' = Append(sent, Call("incident",
                                           incident_message(error),
                                           outcome, r))
              /\ notified' = TRUE
              /\ runIncidents' = Min(runIncidents + 1, 2)
              /\ runDelivered' = (runDelivered \/ (~r.raised /\ r.value))
              /\ IF r.raised
                 THEN /\ pending' = TRUE
                      /\ error' = r.exc
                      /\ UNCHANGED error_reported
                 ELSE /\ error_reported' = TRUE
                      /\ UNCHANGED <<pending, error>>
       ELSE UNCHANGED <<sent, notified, runIncidents, runDelivered, pending,
                        error,
                        error_reported>>
    /\ pc' = "sleep"
    /\ cycleFailed' = TRUE
    /\ failRun' = Min(failRun + 1, MaxRun)
    /\ runFirstKind' = IF failRun = 0 THEN Kind(error) ELSE runFirstKind
    /\ UNCHANGED <<globals, timestamp, response, homeworks, status,
                   cursorAtStart, recovered, slept, fetches, lastHttp,
                   fetched>>

\* a variant of Sleep that sleeps in the except block instead of the finally
\* block: only a failing cycle waits
Sleep_on_failure_only ==
    /\ pc = "sleep"
    /\ slept' = IF cycleFailed THEN slept + RETRY_PERIOD ELSE slept
    /\ fetches' = 0
    /\ lastHttp' = NoRequest
    /\ pc' = IF pending THEN "raised" ELSE "get_api_answer"
    /\ error' = IF pending THEN error ELSE NoError
    /\ response' = Unbound
    /\ homeworks' = Unbound
    /\ status' = ""
    /\ sent' = <<>>
    /\ cycleFailed' = FALSE
    /\ UNCHANGED <<globals, timestamp, error_reported, pending,
                   cursorAtStart, failRun, runIncidents, runFirstKind,
                   runDelivered, recovered, fetched, notified>>

\* lines 209-210: the finally block sleeps; then the loop goes round, or
\* the exception that left the except block leaves main().  The locals of
\* the cycle are dead here (each is assigned before it is read again) and
\* are unbound.
Sleep ==
    /\ pc = "sleep"
    /\ slept' = slept + RETRY_PERIOD
    /\ fetches' = 0
    /\ lastHttp' = NoRequest
    /\ pc' = IF pending THEN "raised" ELSE "get_api_answer"
    /\ error' = IF pending THEN error ELSE NoError
    /\ response' = Unbound
    /\ homeworks' = Unbound
    /\ status' = ""
    /\ sent' = <<>>
    /\ cycleFailed' = FALSE
    /\ UNCHANGED <<globals, timestamp, error_reported, pending,
                   cursorAtStart, failRun, runIncidents, runFirstKind,
                   runDelivered, recovered, fetched,
                   notified>>

Next ==
    \/ Startup
    \/ GetApiAnswer
    \/ CheckResponse
    \/ ParseStatus
    \/ SendStatus
    \/ Advance
    \/ Except
    \/ Sleep

Spec == Init /\ [][Next]_vars

\* the interpreter keeps running main(): a step that can be taken is taken
FairSpec == Spec /\ WF_vars(Next)

-----------------------------------------------------------------------------
(* Properties *)

\* number of incident messages among the send_message calls
IncidentCalls(calls) ==
    Cardinality({i \in 1..Len(calls) : calls[i].kind = "incident"})

\* the cycle that has just ended entered the except block
FailedCycleEnded == pc = "sleep" /\ cycleFailed

\* the response of the cycle is a mapping with both keys and a list
WellFormed(resp) ==
    /\ resp.type = "dict"
    /\ resp.keys = BothKeys
    /\ resp.homeworks.type = "list"

\* C1: in a run of consecutive failing cycles, send_message is called with
\* an incident message exactly once, in the first failing cycle of the run,
\* and not at all in the later failing cycles of the run.
C1_OneIncidentPerOutage ==
    FailedCycleEnded =>
        /\ failRun = 1 => IncidentCalls(sent) = 1
        /\ failRun > 1 => IncidentCalls(sent) = 0
        /\ runIncidents = 1

C1_Witness ==
    /\ FailedCycleEnded
    /\ failRun = MaxRun
    /\ runIncidents = 1
    /\ sent = <<>>

\* C2: a failing cycle leaves the cursor as it was: when the cycle ends, and
\* when the next cycle is about to fetch, timestamp is what it was when the
\* failing cycle began.
C2_CursorKeptOnFailure ==
    (FailedCycleEnded \/ (pc = "get_api_answer" /\ failRun > 0))
        => timestamp = cursorAtStart

C2_Witness ==
    /\ FailedCycleEnded
    /\ error.type = "HomeworkStatusError"
    /\ WellFormed(response)
    /\ response.current_date # timestamp
    /\ timestamp = cursorAtStart

\* C3: after a failing cycle was followed by a successful one, the first
\* cycle that fails again calls send_message with an incident message.
C3_FlagResetsOnSuccess ==
    (FailedCycleEnded /\ recovered /\ failRun = 1)
        => \E i \in 1..Len(sent) : sent[i].kind = "incident"

C3_Witness ==
    /\ FailedCycleEnded
    /\ recovered
    /\ failRun = 1
    /\ Len(sent) = 1
    /\ sent[1].kind = "incident"

\* C4: a cycle whose response is well-formed with an empty homeworks list
\* does not fail, calls send_message not at all, and ends with the cursor
\* equal to the response's current_date.
C4_EmptyListAdvancesSilently ==
    (pc = "sleep" /\ WellFormed(response) /\ Len(response.homeworks.items) = 0)
        => /\ ~cycleFailed
           /\ sent = <<>>
           /\ timestamp = response.current_date

C4_Witness ==
    /\ pc = "sleep"
    /\ WellFormed(response)
    /\ Len(response.homeworks.items) = 0
    /\ sent = <<>>
    /\ timestamp = response.current_date
    /\ timestamp # cursorAtStart

\* the first item of a well-formed response has both keys and a status of
\* the verdict table
KnownFirstItem(resp) ==
    /\ WellFormed(resp)
    /\ Len(resp.homeworks.items) > 0
    /\ resp.homeworks.items[1].type = "dict"
    /\ resp.homeworks.items[1].keys = BothItemKeys
    /\ resp.homeworks.items[1].status \in {"approved", "reviewing", "rejected"}

\* C5: a cycle whose response is well-formed with a non-empty list whose
\* item 0 has name X and a known status s calls send_message exactly once,
\* with the text 'Izmenilsya status proverki raboty "X". ' followed by the
\* verdict of s; the items at indices 1.. cause no call.
C5_OneStatusMessageForFirstItem ==
    (pc = "sleep" /\ KnownFirstItem(response)) =>
        LET item == response.homeworks.items[1] IN
        /\ Len(sent) = 1
        /\ sent[1].kind = "status"
        /\ sent[1].text = "Izmenilsya status proverki raboty \""
                              \o item.homework_name \o "\". "
                              \o Verdicts[item.status]
        /\ (item.homework_name = "X" /\ item.status = "approved") =>
               sent[1].text =
                   "Izmenilsya status proverki raboty \"X\". Rabota proverena: revyueru vsyo ponravilos. Ura!"

C5_Witness ==
    /\ pc = "sleep"
    /\ KnownFirstItem(response)
    /\ Len(response.homeworks.items) = MaxItems
    /\ response.homeworks.items[1].homework_name = "X"
    /\ response.homeworks.items[1].status = "approved"
    /\ response.homeworks.items[2].type = "dict"
    /\ response.homeworks.items[2].status = "rejected"
    /\ Len(sent) = 1
    /\ sent[1].outcome = "ok"

\* main() is inside its while loop
InLoop ==
    pc \in {"get_api_answer", "check_response", "parse_status",
            "send_message", "advance", "except", "sleep"}

\* C6: once the loop is entered no error of a cycle ends it: main() never
\* leaves the loop, and from the except block, from every send_message
\* call and from the sleep the loop comes back to the next fetch.
C6_LoopSurvivesErrors ==
    /\ [](fetched => InLoop)
    /\ (pc \in {"except", "send_message", "sleep"}) ~> (pc = "get_api_answer")

C6_Witness ==
    /\ pc = "get_api_answer"
    /\ fetched
    /\ failRun = MaxRun
    /\ recovered

\* C7: send_message never raises: whatever the transport does, the call
\* returns, with False exactly when the transport failed, for status and
\* for incident messages alike, and no exception of it is left to end
\* main().
C7_NotifierNeverRaises ==
    /\ \A i \in 1..Len(sent) :
         /\ ~sent[i].raised
         /\ sent[i].returned = (sent[i].outcome = "ok")
    /\ ~pending
    /\ notified => pc # "raised"

C7_Witness ==
    /\ pc = "sleep"
    /\ Len(sent) = 1
    /\ sent[1].kind = "incident"
    /\ sent[1].outcome = "RequestException"
    /\ sent[1].returned = FALSE
    /\ recovered
    /\ notified

\* C8: with any of the three tokens absent, main() goes no further than
\* check_tokens: it ends there with the EnvironmentError, and neither
\* get_api_answer nor send_message is ever called.
C8_MissingTokenIsFatal ==
    (PRACTICUM_TOKEN = PyNone \/ TELEGRAM_TOKEN = PyNone
         \/ TELEGRAM_CHAT_ID = PyNone)
        => /\ pc \in {"main", "raised"}
           /\ pc = "raised" => error.type = "OSError"
           /\ ~fetched
           /\ ~notified

C8_Witness ==
    /\ pc = "raised"
    /\ PRACTICUM_TOKEN # PyNone
    /\ TELEGRAM_TOKEN # PyNone
    /\ TELEGRAM_CHAT_ID = PyNone
    /\ error.type = "OSError"

\* check_response has been applied to the response of this cycle and the
\* cycle has gone no further than its result
CheckResponseActed ==
    /\ response.type # "unbound"
    /\ \/ pc \in {"parse_status", "advance"}
       \/ pc = "except" /\ homeworks.type = "unbound"

\* C9: check_response fails with TypeError on a non-mapping; otherwise with
\* KeyError on a mapping without 'homeworks' or 'current_date'; otherwise
\* with TypeError on a 'homeworks' value that is not a list, falsy or not;
\* otherwise it returns the list unchanged, the empty list included.
C9_CheckResponseOrder ==
    CheckResponseActed =>
        IF response.type # "dict"
        THEN pc = "except" /\ error.type = "TypeError"
        ELSE IF ~(BothKeys \subseteq response.keys)
        THEN pc = "except" /\ error.type = "KeyError"
        ELSE IF response.homeworks.type # "list"
        THEN pc = "except" /\ error.type = "TypeError"
        ELSE /\ pc # "except"
             /\ homeworks = response.homeworks
             /\ Len(homeworks.items) = 0 => pc = "advance"

C9_Witness ==
    /\ CheckResponseActed
    /\ pc = "except"
    /\ response.type = "dict"
    /\ response.keys = BothKeys
    /\ response.homeworks = EmptyDict
    /\ error.type = "TypeError"

\* parse_status has been applied to item 0, a mapping with both keys
ParseStatusActed ==
    /\ homeworks.type = "list"
    /\ Len(homeworks.items) > 0
    /\ homeworks.items[1].type = "dict"
    /\ homeworks.items[1].keys = BothItemKeys
    /\ pc \in {"send_message", "except"}

\* C10: for approved, reviewing and rejected, classification gives the
\* sentence the table holds for the code; for any other code it fails with
\* HomeworkStatusError; no step changes the table.
C10_ClassifyByTable ==
    /\ HOMEWORK_VERDICTS =
           [approved |-> "Rabota proverena: revyueru vsyo ponravilos. Ura!",
            reviewing |-> "Rabota vzyata na proverku revyuerom.",
            rejected |-> "Rabota proverena: u revyuera est zamechaniya."]
    /\ ParseStatusActed =>
           LET item == homeworks.items[1] IN
           IF item.status \in {"approved", "reviewing", "rejected"}
           THEN /\ pc = "send_message"
                /\ status = "Izmenilsya status proverki raboty \""
                                \o item.homework_name \o "\". "
                                \o HOMEWORK_VERDICTS[item.status]
           ELSE /\ pc = "except"
                /\ error.type = "HomeworkStatusError"
                /\ status = ""

C10_Witness ==
    /\ ParseStatusActed
    /\ homeworks.items[1].status = "unknown"
    /\ pc = "except"
    /\ error.type = "HomeworkStatusError"

AllTokens == {"PRACTICUM_TOKEN", "TELEGRAM_TOKEN", "TELEGRAM_CHAT_ID"}

\* C11: when the environment supplies all three values, check_tokens passes
\* and main(), run as the script, enters the loop: it does not end at
\* startup.
C11_EnvTokensEnterLoop ==
    (~patched /\ environ = AllTokens /\ pc # "main") => InLoop

\* both values are integers
BothInt(a, b) == a.type = "int" /\ b.type = "int"

\* C12 as claimed: the cursor a cycle starts with is never smaller than the
\* cursor the previous cycle started with, whatever current_date the server
\* sent.
C12_NeverRolledBack ==
    (pc = "get_api_answer" /\ fetched /\ BothInt(timestamp, cursorAtStart))
        => timestamp.int >= cursorAtStart.int

\* C12, amended: the loop itself never rolls the cursor back.  The cursor a
\* cycle ends with, which the next cycle starts with, is the cursor the
\* cycle started with when the cycle failed, and the current_date of the
\* cycle's response when it succeeded; so it is smaller than before only
\* when the server sent a smaller current_date.
C12_CursorFollowsServer ==
    /\ pc = "sleep" =>
          /\ cycleFailed => timestamp = cursorAtStart
          /\ ~cycleFailed =>
                 /\ WellFormed(response)
                 /\ timestamp = response.current_date
          /\ (BothInt(timestamp, cursorAtStart)
                  /\ timestamp.int < cursorAtStart.int)
                 => /\ ~cycleFailed
                    /\ response.current_date.int < cursorAtStart.int
    /\ (pc = "get_api_answer" /\ failRun > 0) => timestamp = cursorAtStart

C12_Witness ==
    /\ pc = "sleep"
    /\ ~cycleFailed
    /\ BothInt(timestamp, cursorAtStart)
    /\ timestamp.int < cursorAtStart.int
    /\ timestamp = response.current_date

\* C13: a response whose current_date is not an integer is rejected before
\* the loop uses it, so the cursor, once bound, is always an integer.
C13_CursorIsInteger ==
    timestamp.type \in {"unbound", "int"}

\* main() is inside a cycle: it has fetched and has not slept yet
InCycle ==
    pc \in {"check_response", "parse_status", "send_message", "advance",
            "except", "sleep"}

\* C14: a cycle makes one call of get_api_answer, and between two
\* consecutive calls the loop sleeps once, for RETRY_PERIOD seconds, after
\* a cycle that succeeded as after one that failed.
C14_OneFetchOneSleepPerCycle ==
    /\ fetches <= 1
    /\ InCycle => (fetches = 1 /\ slept = 0)
    /\ (pc = "get_api_answer" /\ fetched)
           => (fetches = 0 /\ slept = RETRY_PERIOD)

C14_Witness ==
    /\ pc = "get_api_answer"
    /\ fetched
    /\ slept = RETRY_PERIOD
    /\ recovered
    /\ failRun = 0

\* get_api_answer has been called in this cycle and the cycle has gone no
\* further than its result
GetApiAnswerActed ==
    /\ lastHttp.kind # "none"
    /\ \/ pc = "check_response"
       \/ pc = "except" /\ response.type = "unbound"

\* get_api_answer raised an exception of the given class
FetchRaised(type) == pc = "except" /\ error.type = type

\* C15 as claimed: the decoded body is returned for every 2xx response, and
\* ResponseStatusError is raised for every other response and for every
\* transport failure.
C15_Every2xxReturned ==
    GetApiAnswerActed =>
        IF lastHttp.kind = "response" /\ lastHttp.status_code \in 200..299
        THEN pc = "check_response" /\ response = lastHttp.json
        ELSE FetchRaised("ResponseStatusError")

\* C15, amended: get_api_answer returns the decoded body only for a
\* response with status 200 whose body decodes; it raises
\* ResponseStatusError for every response with another status, other 2xx
\* statuses included, and for every transport failure; the one other error
\* that leaves it is the decoder's, for a 200 response whose body is not
\* JSON.
C15_Only200Returned ==
    GetApiAnswerActed =>
        IF lastHttp.kind = "RequestException"
        THEN FetchRaised("ResponseStatusError")
        ELSE IF lastHttp.status_code # 200
        THEN FetchRaised("ResponseStatusError")
        ELSE IF lastHttp.json = NotJson
        THEN FetchRaised("JSONDecodeError")
        ELSE pc = "check_response" /\ response = lastHttp.json

C15_Witness ==
    /\ GetApiAnswerActed
    /\ lastHttp.kind = "response"
    /\ lastHttp.status_code = 201
    /\ FetchRaised("ResponseStatusError")

\* C16: at the sleep, error_reported is true exactly when the cycle that
\* has just ended raised an error, and false exactly when it completed,
\* with items or with an empty list.
C16_FlagTellsLastCycle ==
    pc = "sleep" => (error_reported <=> cycleFailed)

C16_Witness ==
    /\ pc = "sleep"
    /\ ~cycleFailed
    /\ ~error_reported
    /\ recovered
    /\ WellFormed(response)
    /\ Len(response.homeworks.items) = 0

\* call i of the cycle returned False
ReturnedFalse(i) == ~sent[i].raised /\ sent[i].returned = FALSE

\* C17: the flag is set after the incident attempt whatever its result: when
\* the incident call of the first failing cycle returned False the flag is
\* set all the same, no later failing cycle of the run attempts an incident
\* message, and the run stays without a delivered incident message.
C17_FlagSetWhateverDelivery ==
    /\ (FailedCycleEnded /\ failRun = 1 /\ Len(sent) > 0
            /\ sent[Len(sent)].kind = "incident"
            /\ ReturnedFalse(Len(sent)))
           => (error_reported /\ ~runDelivered)
    /\ (FailedCycleEnded /\ failRun > 1 /\ ~runDelivered)
           => /\ IncidentCalls(sent) = 0
              /\ runIncidents = 1
              /\ error_reported

C17_Witness ==
    /\ FailedCycleEnded
    /\ failRun = MaxRun
    /\ ~runDelivered
    /\ runIncidents = 1
    /\ sent = <<>>
    /\ error_reported

C19_SuppressionIgnoresErrorKind ==
    /\ (FailedCycleEnded /\ failRun = 1)
           => /\ Len(sent) > 0
              /\ sent[Len(sent)].kind = "incident"
              /\ sent[Len(sent)].text =
                     "Proizoshel sboj v rabote programmy: " \o error.text
              /\ runFirstKind = Kind(error)
    /\ (FailedCycleEnded /\ failRun > 1 /\ Kind(error) # runFirstKind)
           => /\ IncidentCalls(sent) = 0
              /\ runIncidents = 1

C19_Witness ==
    /\ FailedCycleEnded
    /\ failRun = MaxRun
    /\ runFirstKind = "ResponseStatusError"
    /\ error.type = "HomeworkStatusError"
    /\ IncidentCalls(sent) = 0
    /\ runIncidents = 1

====
